---- MODULE Spec2Model ----
(***************************************************************************)
(* gitlab-stale-branch-cleaner: the CLI entry point (src/bin/index.js) and *)
(* the cleaner pipeline (src/lib/cleaner.js): paginated branch listing,    *)
(* the staleness/eligibility filter and the sequential delete loop.        *)
(*                                                                         *)
(* Branch names are modelled as natural numbers (name i is the i-th branch *)
(* the host lists); EmptyName stands for the empty string, which no branch *)
(* carries.  Times are milliseconds, as in the source.  A JavaScript       *)
(* object with optional keys is a function whose DOMAIN is the set of keys *)
(* that are defined.  The GitLab host is the environment: every request    *)
(* is answered nondeterministically by a failure or by a response.         *)
(***************************************************************************)
EXTENDS Integers, Sequences, FiniteSets, TLC

VARIABLES
  pc,               \* where the run stands
  options,          \* program.opts()
  asked,            \* the questions handed to inquirer.prompt
  interactiveInput, \* the answers
  finalInput,       \* the configuration passed to runCleaner
  result,           \* runCleaner's result record
  deletedCount, failedCount,
  page, fetched,    \* getBranches: page number and accumulated branches
  branches,         \* runCleaner: what getBranches returned
  staleBranches,    \* runCleaner: the branches that passed the filter
  idx,              \* position of the delete loop in staleBranches
  inFlight,         \* requests sent and not yet answered
  calls,            \* answered requests, in order, with their outcome
  caught,           \* an exception reached the catch of run()
  exitCode

vars == <<pc, options, asked, interactiveInput, finalInput, result,
          deletedCount, failedCount, page, fetched, branches, staleBranches,
          idx, inFlight, calls, caught, exitCode>>

(***************************************************************************)
(* Bounds of the model.                                                    *)
(***************************************************************************)
MaxBranches == 2      \* longest branch list with freely chosen attributes
MaxStaleDays == 2     \* largest --stale-days value
MaxFullPages == 2     \* the host serves at most this many full pages
MaxFill == 6          \* names 1..MaxFill of a long listing are stale and unprotected
MaxFailName == 4      \* the host may refuse DELETE for names 1..MaxFailName

(***************************************************************************)
(* Program constants.                                                      *)
(***************************************************************************)
PerPage == 100
MsPerDay == 1000 * 60 * 60 * 24

EmptyName == 0
NoExit == -1
Now == (MaxStaleDays + 1) * MsPerDay

Has(o, k) == k \in DOMAIN o
\* JavaScript truthiness of o[k] for the string-valued options
Truthy(o, k) == Has(o, k) /\ o[k] # ""
\* o[k] ?? d
Coalesce(o, k, d) == IF Has(o, k) THEN o[k] ELSE d

Includes(s, x) == \E i \in 1..Len(s) : s[i] = x

RECURSIVE SelectSeq2(_, _)
SelectSeq2(s, keep) ==
  IF s = <<>> THEN <<>>
  ELSE IF keep[1] THEN <<Head(s)>> \o SelectSeq2(Tail(s), Tail(keep))
       ELSE SelectSeq2(Tail(s), Tail(keep))

(***************************************************************************)
(* Command line (src/bin/index.js)                                         *)
(***************************************************************************)
ExcludeLists == {<<EmptyName>>, <<2>>}
MainNames == {1, 3}

\* program.opts() after program.parse: --main-branch, --stale-days and
\* --dry-run carry defaults and are always defined; --token, --project-id
\* and --exclude are defined only when given ('' is --token '').  The
\* day count stays small so that millisecond arithmetic fits the checker's
\* integers.
ParsedOptions ==
  { [k \in (({"token", "projectId", "exclude"} \ absent)
            \cup {"mainBranch", "staleDays", "dryRun"}) |->
       CASE k = "token" -> t
         [] k = "projectId" -> p
         [] k = "exclude" -> x
         [] k = "mainBranch" -> m
         [] k = "staleDays" -> s
         [] k = "dryRun" -> d] :
      t \in {"", "tok"}, p \in {"", "42"}, x \in ExcludeLists,
      m \in MainNames, s \in 1..MaxStaleDays, d \in BOOLEAN,
      absent \in SUBSET {"token", "projectId", "exclude"} }

Init ==
  /\ pc = "cli"
  /\ options \in ParsedOptions
  /\ asked = <<>>
  /\ interactiveInput = <<>>
  /\ finalInput = <<>>
  /\ result = <<>>
  /\ deletedCount = 0
  /\ failedCount = 0
  /\ page = 0
  /\ fetched = <<>>
  /\ branches = <<>>
  /\ staleBranches = <<>>
  /\ idx = 0
  /\ inFlight = <<>>
  /\ calls = <<>>
  /\ caught = FALSE
  /\ exitCode = NoExit

\* promptForMissingOptions: the questions pushed, in order
Questions(o) ==
  SelectSeq2(<<"token", "projectId", "mainBranch", "staleDays", "exclude", "dryRun">>,
             << ~Truthy(o, "token"),
                ~Truthy(o, "projectId"),
                ~Has(o, "mainBranch"),
                ~Has(o, "staleDays"),
                ~Has(o, "exclude"),
                ~(Has(o, "dryRun") /\ o["dryRun"] \in BOOLEAN) >>)

Range(s) == {s[i] : i \in 1..Len(s)}

Exit(code) ==
  /\ pc' = "exited"
  /\ exitCode' = code

\* run(), first part: await promptForMissingOptions().  With no question the
\* result is {} and inquirer is not called; otherwise inquirer.prompt asks
\* every question and resolves with the (validated, filtered) answers.
PromptForMissingOptions ==
  /\ pc = "cli"
  /\ LET q == Questions(options) IN
       /\ asked' = q
       /\ \E t \in {"tok"}, p \in {"42"}, x \in ExcludeLists,
             m \in MainNames, s \in 1..MaxStaleDays, d \in BOOLEAN :
            interactiveInput' =
              [k \in Range(q) |->
                 CASE k = "token" -> t
                   [] k = "projectId" -> p
                   [] k = "exclude" -> x
                   [] k = "mainBranch" -> m
                   [] k = "staleDays" -> s
                   [] k = "dryRun" -> d]
  /\ pc' = "prompted"
  /\ UNCHANGED <<options, finalInput, result, deletedCount, failedCount, page,
                 fetched, branches, staleBranches, idx, inFlight, calls,
                 caught, exitCode>>

\* inquirer.prompt rejects (closed input, interrupted prompt): caught by
\* run()'s catch, process.exit(2)
PromptRejected ==
  /\ pc = "cli"
  /\ Questions(options) # <<>>
  /\ asked' = Questions(options)
  /\ caught' = TRUE
  /\ Exit(2)
  /\ UNCHANGED <<options, interactiveInput, finalInput, result, deletedCount,
                 failedCount, page, fetched, branches, staleBranches, idx,
                 inFlight, calls>>

\* the defaults after the second ?? ("main", 90, [], true) are never
\* reached, since these options are defined or were asked; "main" is
\* branch name 1 and the day count is kept within MaxStaleDays
FinalInput(o, i) ==
  [ gitlabToken |-> Coalesce(o, "token", Coalesce(i, "token", "")),
    projectId |-> Coalesce(o, "projectId", Coalesce(i, "projectId", "")),
    mainBranch |-> Coalesce(o, "mainBranch", Coalesce(i, "mainBranch", 1)),
    staleDays |-> Coalesce(o, "staleDays", Coalesce(i, "staleDays", MaxStaleDays)),
    excludedBranches |-> Coalesce(o, "exclude", Coalesce(i, "exclude", <<>>)),
    dryRun |-> IF Has(o, "dryRun") /\ o["dryRun"] \in BOOLEAN
               THEN o["dryRun"] ELSE Coalesce(i, "dryRun", TRUE) ]

NewResult(f) ==
  [ projectId |-> f.projectId,
    dryRun |-> f.dryRun,
    branchesScanned |-> 0,
    branchesEligible |-> 0,
    branchesDeleted |-> 0,
    branchesFailed |-> 0,
    failedBranches |-> <<>>,
    excludedBranches |-> f.excludedBranches,
    success |-> TRUE ]

GetReq(p) == [method |-> "GET", page |-> p, per_page |-> PerPage]
DeleteReq(n) == [method |-> "DELETE", name |-> n]

\* run(), second part: finalInput, the final safety validation, and the
\* call of runCleaner up to its first await (the GET of page 1).
Validate ==
  /\ pc = "prompted"
  /\ LET f == FinalInput(options, interactiveInput) IN
       /\ finalInput' = f
       /\ IF f.gitlabToken = "" \/ f.projectId = ""
          THEN /\ Exit(1)
               /\ UNCHANGED <<result, page, inFlight>>
          ELSE /\ result' = NewResult(f)
               /\ page' = 1
               /\ inFlight' = <<GetReq(1)>>
               /\ pc' = "getBranches"
               /\ UNCHANGED exitCode
  /\ UNCHANGED <<options, asked, interactiveInput, deletedCount, failedCount,
                 fetched, branches, staleBranches, idx, calls, caught>>

(***************************************************************************)
(* The host's answers to GET /repository/branches?per_page=100&page=p      *)
(***************************************************************************)
Branch(n, prot, t) ==
  [name |-> n, protected |-> prot, commit |-> [committed_date |-> t]]

\* last-commit times one millisecond after, exactly at, and one millisecond
\* before the instant that lies one day in the past
CommitDates == {Now - MsPerDay + e : e \in {-1, 0, 1}}
OldDate == Now - MaxStaleDays * MsPerDay - 1
FreshDate == Now - 1

\* short listings with freely chosen attributes; the i-th branch is named i
RichLists ==
  UNION { { [i \in 1..n |-> Branch(i, k[i].protected, k[i].committed)] :
              k \in [1..n -> [protected : BOOLEAN, committed : CommitDates]] } :
          n \in 0..MaxBranches }

\* long listings: names 1..MaxFill are old and unprotected, the others
\* alternate between old protected and fresh unprotected
FillBranch(n) ==
  IF n <= MaxFill THEN Branch(n, FALSE, OldDate)
  ELSE IF n % 2 = 1 THEN Branch(n, TRUE, OldDate)
  ELSE Branch(n, FALSE, FreshDate)

FillPage(start, n) == [i \in 1..n |-> FillBranch(start + i)]

Remainders == {0, 37, 99}

\* the pages the host may return for page p when `start` branches precede
\* it; the host honours per_page, so a page never holds more than PerPage
PageResponses(p, start) ==
  (IF p = 1 THEN RichLists ELSE {})
  \cup { FillPage(start, n) : n \in Remainders }
  \cup (IF p <= MaxFullPages THEN { FillPage(start, PerPage) } ELSE {})

(***************************************************************************)
(* runCleaner (src/lib/cleaner.js)                                         *)
(***************************************************************************)
\* variant: a branch whose age equals the threshold counts as stale
isBranchStaleAtThreshold(branch, staleDays) ==
  (Now - branch.commit.committed_date) >= staleDays * MsPerDay

\* daysSinceLastUpdate > Number(staleDays), the quotient by the number of
\* milliseconds of a day being exact: x / D > s  iff  x > s * D
isBranchStale(branch, staleDays) ==
  (Now - branch.commit.committed_date) > staleDays * MsPerDay

\* variant: the filter without the check of the protected flag
EligibleIgnoringProtected(branch, f) ==
  /\ branch.name # f.mainBranch
  /\ isBranchStale(branch, f.staleDays)
  /\ ~Includes(f.excludedBranches, branch.name)

Eligible(branch, f) ==
  /\ branch.name # f.mainBranch
  /\ ~branch.protected
  /\ isBranchStale(branch, f.staleDays)
  /\ ~Includes(f.excludedBranches, branch.name)

RECURSIVE ReverseSeq(_)
ReverseSeq(q) == IF q = <<>> THEN <<>> ELSE Append(ReverseSeq(Tail(q)), Head(q))

\* variant: the eligible branches are handed on in reverse order
StaleBranchesReversed(bs, f) ==
  ReverseSeq(SelectSeq(bs, LAMBDA b : Eligible(b, f)))

\* branches.filter(...): keeps the order of the listing
StaleBranches(bs, f) == SelectSeq(bs, LAMBDA b : Eligible(b, f))

\* variant: a full page ends the listing too
LastPageInclusive(data) == Len(data) <= PerPage

\* if (data.length < perPage) break
LastPage(data) == Len(data) < PerPage

\* getBranches: a page arrives.  branches = branches.concat(data); a short
\* page ends the loop, getBranches returns and runCleaner goes on (scanned,
\* filter, eligible) to the delete loop; a full page requests the next one.
GetPageResolved ==
  /\ pc = "getBranches"
  /\ \E data \in PageResponses(page, Len(fetched)) :
       /\ calls' = Append(calls, [req |-> inFlight[1], ok |-> TRUE, data |-> data])
       /\ IF LastPage(data)
          THEN /\ inFlight' = <<>>
               /\ fetched' = <<>>
               /\ branches' = fetched \o data
               /\ staleBranches' = StaleBranches(branches', finalInput)
               /\ result' = [result EXCEPT
                               !.branchesScanned = Len(branches'),
                               !.branchesEligible = Len(staleBranches')]
               /\ idx' = 1
               /\ pc' = "loop"
               /\ UNCHANGED page
          ELSE /\ fetched' = fetched \o data
               /\ page' = page + 1
               /\ inFlight' = <<GetReq(page')>>
               /\ UNCHANGED <<branches, staleBranches, result, idx, pc>>
  /\ UNCHANGED <<options, asked, interactiveInput, finalInput, deletedCount,
                 failedCount, caught, exitCode>>

\* variant: the catch of getBranches returns what was accumulated so far
GetPageRejectedKeepingPartial ==
  /\ pc = "getBranches"
  /\ calls' = Append(calls, [req |-> inFlight[1], ok |-> FALSE, data |-> <<>>])
  /\ inFlight' = <<>>
  /\ fetched' = <<>>
  /\ branches' = fetched
  /\ staleBranches' = StaleBranches(branches', finalInput)
  /\ result' = [result EXCEPT
                  !.branchesScanned = Len(branches'),
                  !.branchesEligible = Len(staleBranches')]
  /\ idx' = 1
  /\ pc' = "loop"
  /\ UNCHANGED <<options, asked, interactiveInput, finalInput, deletedCount,
                 failedCount, page, caught, exitCode>>

\* getBranches: a page request fails; getBranches throws and its local
\* accumulation is lost, runCleaner's catch sets success = false and calls
\* process.exit(2)
GetPageRejected ==
  /\ pc = "getBranches"
  /\ calls' = Append(calls, [req |-> inFlight[1], ok |-> FALSE, data |-> <<>>])
  /\ inFlight' = <<>>
  /\ fetched' = <<>>
  /\ result' = [result EXCEPT !.success = FALSE]
  /\ Exit(2)
  /\ UNCHANGED <<options, asked, interactiveInput, finalInput, deletedCount,
                 failedCount, page, branches, staleBranches, idx, caught>>

\* for (const branch of staleBranches) await deleteBranch(branch.name):
\* one iteration up to its await.  In a dry run deleteBranch returns at once.
DeleteBranchDryRun ==
  /\ pc = "loop"
  /\ idx <= Len(staleBranches)
  /\ finalInput.dryRun
  /\ idx' = idx + 1
  /\ UNCHANGED <<pc, options, asked, interactiveInput, finalInput, result,
                 deletedCount, failedCount, page, fetched, branches,
                 staleBranches, inFlight, calls, caught, exitCode>>

\* variant: deleteBranch without its dry-run return
DeleteBranchRequestIgnoringDryRun ==
  /\ pc = "loop"
  /\ idx <= Len(staleBranches)
  /\ inFlight' = Append(inFlight, DeleteReq(staleBranches[idx].name))
  /\ pc' = "deleteBranch"
  /\ UNCHANGED <<options, asked, interactiveInput, finalInput, result,
                 deletedCount, failedCount, page, fetched, branches,
                 staleBranches, idx, calls, caught, exitCode>>

DeleteBranchRequest ==
  /\ pc = "loop"
  /\ idx <= Len(staleBranches)
  /\ ~finalInput.dryRun
  /\ inFlight' = Append(inFlight, DeleteReq(staleBranches[idx].name))
  /\ pc' = "deleteBranch"
  /\ UNCHANGED <<options, asked, interactiveInput, finalInput, result,
                 deletedCount, failedCount, page, fetched, branches,
                 staleBranches, idx, calls, caught, exitCode>>

\* variant: only the local deletedCount is incremented
RecordDeletedLocalOnly(r) == r

\* deletedCount++ is modelled beside it; result.branchesDeleted++
RecordDeleted(r) == [r EXCEPT !.branchesDeleted = @ + 1]

\* variant: the catch of deleteBranch leaves result.success alone
RecordFailureKeepingSuccess(r, name) ==
  [r EXCEPT !.branchesFailed = @ + 1,
            !.failedBranches = Append(@, name)]

\* the catch of deleteBranch
RecordFailure(r, name) ==
  [r EXCEPT !.branchesFailed = @ + 1,
            !.failedBranches = Append(@, name),
            !.success = FALSE]

\* api.delete resolves
DeleteResolved ==
  /\ pc = "deleteBranch"
  /\ calls' = Append(calls, [req |-> inFlight[1], ok |-> TRUE, data |-> <<>>])
  /\ inFlight' = Tail(inFlight)
  /\ deletedCount' = deletedCount + 1
  /\ result' = RecordDeleted(result)
  /\ idx' = idx + 1
  /\ pc' = "loop"
  /\ UNCHANGED <<options, asked, interactiveInput, finalInput, failedCount,
                 page, fetched, branches, staleBranches, caught, exitCode>>

\* variant: a failed deletion ends the run (no catch inside deleteBranch)
DeleteRejectedAborting ==
  /\ pc = "deleteBranch"
  /\ inFlight[1].name <= MaxFailName
  /\ calls' = Append(calls, [req |-> inFlight[1], ok |-> FALSE, data |-> <<>>])
  /\ inFlight' = Tail(inFlight)
  /\ failedCount' = failedCount + 1
  /\ result' = RecordFailure(result, staleBranches[idx].name)
  /\ Exit(2)
  /\ UNCHANGED <<options, asked, interactiveInput, finalInput, deletedCount,
                 page, fetched, branches, staleBranches, idx, caught>>

\* api.delete rejects: the catch of deleteBranch records the failure
DeleteRejected ==
  /\ pc = "deleteBranch"
  /\ inFlight[1].name <= MaxFailName
  /\ calls' = Append(calls, [req |-> inFlight[1], ok |-> FALSE, data |-> <<>>])
  /\ inFlight' = Tail(inFlight)
  /\ failedCount' = failedCount + 1
  /\ result' = RecordFailure(result, staleBranches[idx].name)
  /\ idx' = idx + 1
  /\ pc' = "loop"
  /\ UNCHANGED <<options, asked, interactiveInput, finalInput, deletedCount,
                 page, fetched, branches, staleBranches, caught, exitCode>>

\* variant: the run ends with 0 whatever failed
ExitCodeAlwaysZero(failed) == 0

\* if (failedCount > 0) process.exit(2), else return to run(): process.exit(0)
ExitCodeAfterLoop(failed) == IF failed > 0 THEN 2 ELSE 0

\* after the loop: the summary, then process.exit(2) if a deletion failed,
\* else runCleaner returns and run() calls process.exit(0)
Finish ==
  /\ pc = "loop"
  /\ idx > Len(staleBranches)
  /\ Exit(ExitCodeAfterLoop(failedCount))
  /\ UNCHANGED <<options, asked, interactiveInput, finalInput, result,
                 deletedCount, failedCount, page, fetched, branches,
                 staleBranches, idx, inFlight, calls, caught>>

Next ==
  \/ PromptForMissingOptions
  \/ PromptRejected
  \/ Validate
  \/ GetPageResolved
  \/ GetPageRejected
  \/ DeleteBranchDryRun
  \/ DeleteBranchRequest
  \/ DeleteResolved
  \/ DeleteRejected
  \/ Finish

Spec == Init /\ [][Next]_vars

(***************************************************************************)
(* Vocabulary of the properties                                            *)
(***************************************************************************)
Started == "success" \in DOMAIN result           \* runCleaner was called
Filtered == idx >= 1                              \* the filter has run
Exited == pc = "exited"
DryRun == Started /\ finalInput.dryRun

AgeMs(b) == Now - b.commit.committed_date
InList(s, x) == \E i \in 1..Len(s) : s[i] = x

IsGet(c) == c.req.method = "GET"
IsDelete(c) == c.req.method = "DELETE"
GetCalls == SelectSeq(calls, IsGet)
DeleteCalls == SelectSeq(calls, IsDelete)
FailedDeletes == SelectSeq(DeleteCalls, LAMBDA c : ~c.ok)
DoneDeletes == SelectSeq(DeleteCalls, LAMBDA c : c.ok)
\* every request sent so far, answered or not, in the order of sending
Requests == [i \in 1..Len(calls) |-> calls[i].req] \o inFlight
GetRequests == SelectSeq(Requests, LAMBDA r : r.method = "GET")
DeleteRequests == SelectSeq(Requests, LAMBDA r : r.method = "DELETE")
ListingFailed == \E i \in 1..Len(calls) : IsGet(calls[i]) /\ ~calls[i].ok
\* every page request was answered, and none failed
ListingSucceeded ==
  /\ GetCalls # <<>>
  /\ Len(GetRequests) = Len(GetCalls)
  /\ ~ListingFailed
NamesOf(cs) == [i \in 1..Len(cs) |-> cs[i].req.name]

(***************************************************************************)
(* C1: once the filter has run, a listed branch is in the eligible set if  *)
(* and only if its name differs from mainBranch, it is not protected, its  *)
(* name is not excluded, and its age exceeds staleDays days strictly.      *)
(***************************************************************************)
C1_EligibleIff ==
  Filtered =>
    LET eligible == Range(staleBranches) IN
    \A i \in 1..Len(branches) :
      branches[i] \in eligible
        <=> /\ branches[i].name # finalInput.mainBranch
            /\ branches[i].protected = FALSE
            /\ ~InList(finalInput.excludedBranches, branches[i].name)
            /\ AgeMs(branches[i]) > finalInput.staleDays * MsPerDay

\* a listing with an unprotected branch exactly at the threshold, left out,
\* beside an excluded branch past the threshold, left out too
C1_Witness ==
  /\ Filtered
  /\ \E i, j \in 1..Len(branches) :
       /\ AgeMs(branches[i]) = finalInput.staleDays * MsPerDay
       /\ ~branches[i].protected
       /\ branches[i].name # finalInput.mainBranch
       /\ ~InList(finalInput.excludedBranches, branches[i].name)
       /\ ~InList(staleBranches, branches[i])
       /\ AgeMs(branches[j]) > finalInput.staleDays * MsPerDay
       /\ ~branches[j].protected
       /\ InList(finalInput.excludedBranches, branches[j].name)
       /\ ~InList(staleBranches, branches[j])

(***************************************************************************)
(* C2: in a dry run no DELETE request is ever sent, and branchesDeleted    *)
(* and branchesFailed are 0 (throughout, hence when the run ends).         *)
(***************************************************************************)
C2_DryRunNoDelete ==
  DryRun =>
    /\ DeleteRequests = <<>>
    /\ result.branchesDeleted = 0
    /\ result.branchesFailed = 0

C2_Witness ==
  /\ DryRun
  /\ Exited
  /\ Len(staleBranches) >= 2
  /\ idx > Len(staleBranches)

(***************************************************************************)
(* C3: every DELETE request names a listed branch, and no listed branch of *)
(* that name is protected, is the main branch, is excluded, or has a last  *)
(* commit not older than staleDays days.                                   *)
(***************************************************************************)
C3_DeleteOnlyEligible ==
  LET requested == {r.name : r \in Range(DeleteRequests)} IN
    /\ \A n \in requested : \E i \in 1..Len(branches) : branches[i].name = n
    /\ \A i \in 1..Len(branches) :
         branches[i].name \in requested =>
           /\ ~branches[i].protected
           /\ branches[i].name # finalInput.mainBranch
           /\ ~InList(finalInput.excludedBranches, branches[i].name)
           /\ AgeMs(branches[i]) > finalInput.staleDays * MsPerDay

\* a DELETE sent after an earlier one failed, in a listing that holds the
\* main branch, a protected, an excluded and a recently updated branch
C3_Witness ==
  /\ Len(inFlight) = 1
  /\ inFlight[1].method = "DELETE"
  /\ FailedDeletes # <<>>
  /\ \E i \in 1..Len(branches) : branches[i].name = finalInput.mainBranch
  /\ \E i \in 1..Len(branches) : branches[i].protected
  /\ \E i \in 1..Len(branches) :
       InList(finalInput.excludedBranches, branches[i].name)
  /\ \E i \in 1..Len(branches) :
       AgeMs(branches[i]) <= finalInput.staleDays * MsPerDay

(***************************************************************************)
(* C4: the GET requests are pages 1, 2, 3, ... with per_page = 100; after  *)
(* an answered page a further page is requested exactly when the page held *)
(* 100 items; what getBranches returns is the concatenation of the pages   *)
(* in request order.                                                       *)
(***************************************************************************)
RECURSIVE ConcatData(_)
ConcatData(cs) == IF cs = <<>> THEN <<>> ELSE Head(cs).data \o ConcatData(Tail(cs))

C4_Pagination ==
  /\ \A i \in 1..Len(GetRequests) :
       GetRequests[i].page = i /\ GetRequests[i].per_page = 100
  /\ \A i \in 1..Len(GetCalls) :
       GetCalls[i].ok =>
         ((Len(GetCalls[i].data) = 100) <=> (Len(GetRequests) > i))
  /\ Filtered => branches = ConcatData(GetCalls)

\* pages of 100, 100 and 37: 237 branches, three requests, no fourth
C4_Witness ==
  /\ Filtered
  /\ Len(GetCalls) = 3
  /\ Len(GetCalls[1].data) = 100
  /\ Len(GetCalls[2].data) = 100
  /\ Len(GetCalls[3].data) = 37
  /\ Len(branches) = 237
  /\ Len(GetRequests) = 3
  /\ Exited

(***************************************************************************)
(* C5: when a non-dry run whose listing succeeded has ended, a deletion    *)
(* was attempted for every eligible branch, whatever failed before it;     *)
(* branchesFailed and branchesDeleted count the failed and the successful  *)
(* attempts, failedBranches lists the failed names in processing order,    *)
(* and success is false if an attempt failed.                              *)
(***************************************************************************)
C5_PartialFailure ==
  (Exited /\ Started /\ ~finalInput.dryRun /\ ~ListingFailed) =>
    /\ \A j \in 1..Len(staleBranches) :
         \E k \in 1..Len(DeleteCalls) :
           DeleteCalls[k].req.name = staleBranches[j].name
    /\ result.branchesFailed = Len(FailedDeletes)
    /\ result.branchesDeleted = Len(DoneDeletes)
    /\ result.failedBranches = NamesOf(FailedDeletes)
    /\ (FailedDeletes # <<>> => result.success = FALSE)

\* five eligible branches, the third fails: deleted 4, failed 1
C5_Witness ==
  /\ Exited /\ Started /\ ~finalInput.dryRun
  /\ Len(staleBranches) = 5
  /\ Len(DeleteCalls) = 5
  /\ \A k \in 1..5 : DeleteCalls[k].ok <=> (k # 3)
  /\ result.branchesDeleted = 4
  /\ result.branchesFailed = 1
  /\ result.failedBranches = <<staleBranches[3].name>>
  /\ result.success = FALSE

(***************************************************************************)
(* C6: after a failed page request no DELETE is ever sent, nothing of the  *)
(* pages already fetched reaches runCleaner, the four counters are 0,      *)
(* failedBranches is empty and success is false.                           *)
(***************************************************************************)
C6_FetchFailureAborts ==
  ListingFailed =>
    /\ Exited
    /\ DeleteRequests = <<>>
    /\ branches = <<>> /\ staleBranches = <<>> /\ fetched = <<>>
    /\ result.branchesScanned = 0 /\ result.branchesEligible = 0
    /\ result.branchesDeleted = 0 /\ result.branchesFailed = 0
    /\ result.failedBranches = <<>>
    /\ result.success = FALSE

\* the request for page 2 fails after a full page 1 had arrived
C6_Witness ==
  /\ ListingFailed
  /\ Len(GetCalls) = 2
  /\ GetCalls[1].ok /\ Len(GetCalls[1].data) = 100
  /\ ~GetCalls[2].ok

(***************************************************************************)
(* C7: the exit code is 0 exactly when the listing succeeded and no        *)
(* deletion failed; it is 2 when the listing failed, a deletion failed or  *)
(* an exception reached the catch of run(); it is 1, with no request sent, *)
(* when the token or the project id passed on is still empty.              *)
(***************************************************************************)
InputMissing ==
  /\ "gitlabToken" \in DOMAIN finalInput
  /\ (finalInput.gitlabToken = "" \/ finalInput.projectId = "")

C8_SuccessAtEnd ==
  (Exited /\ Started) =>
    (result.success <=> (ListingSucceeded /\ result.branchesFailed = 0))

C8_SuccessSticky ==
  (Started /\ ~result.success) => ~result'.success

C8_Success == []C8_SuccessAtEnd /\ [][C8_SuccessSticky]_vars

\* a deletion succeeded after an earlier one had failed, success still false
C8_Witness ==
  /\ Exited /\ Started
  /\ ~result.success
  /\ Len(DeleteCalls) >= 2
  /\ ~DeleteCalls[1].ok
  /\ DeleteCalls[Len(DeleteCalls)].ok

(***************************************************************************)
(* C9: the counters are never negative, failedBranches is as long as       *)
(* branchesFailed, after the filter deleted + failed <= eligible <=        *)
(* scanned, and when a non-dry run has finished its delete loop            *)
(* deleted + failed = eligible.                                            *)
(***************************************************************************)
C9_Counters ==
  Started =>
    /\ result.branchesScanned >= 0 /\ result.branchesEligible >= 0
    /\ result.branchesDeleted >= 0 /\ result.branchesFailed >= 0
    /\ Len(result.failedBranches) = result.branchesFailed
    /\ Filtered =>
         /\ result.branchesDeleted + result.branchesFailed
              <= result.branchesEligible
         /\ result.branchesEligible <= result.branchesScanned
    /\ (Filtered /\ ~finalInput.dryRun /\ idx > Len(staleBranches)) =>
         result.branchesDeleted + result.branchesFailed
           = result.branchesEligible

C9_Witness ==
  /\ Exited /\ Started /\ ~finalInput.dryRun
  /\ result.branchesDeleted >= 1
  /\ result.branchesFailed >= 1
  /\ result.branchesEligible < result.branchesScanned

(***************************************************************************)
(* C10: with --token and --project-id both given on the command line,      *)
(* promptForMissingOptions asks no question.                               *)
(***************************************************************************)
C10_NoPromptWithBothFlags ==
  (pc # "cli" /\ Truthy(options, "token") /\ Truthy(options, "projectId"))
    => asked = <<>>

\* what the code does keep: nothing is asked when --exclude is given too
C10_NoPromptWithAllFlags ==
  (pc # "cli" /\ Truthy(options, "token") /\ Truthy(options, "projectId")
     /\ Has(options, "exclude"))
    => asked = <<>>

(***************************************************************************)
(* C11: in a non-dry run whose listing succeeded, the DELETE requests sent *)
(* so far are, in order, the first eligible branches of the listing (those *)
(* that are not main, not protected, not excluded and past the threshold), *)
(* one request per branch whether it succeeded or failed, and all of them  *)
(* once the run has ended; at most one request is unanswered at any time,  *)
(* and it is the last one sent.                                            *)
(***************************************************************************)
EligibleNamesInListingOrder ==
  LET keep == SelectSeq(branches, LAMBDA b :
                /\ b.name # finalInput.mainBranch
                /\ ~b.protected
                /\ ~InList(finalInput.excludedBranches, b.name)
                /\ AgeMs(b) > finalInput.staleDays * MsPerDay)
  IN [i \in 1..Len(keep) |-> keep[i].name]

C11_SequentialInOrder ==
  /\ Len(inFlight) <= 1
  /\ (Started /\ Filtered /\ ~finalInput.dryRun) =>
       LET sent == [i \in 1..Len(DeleteRequests) |-> DeleteRequests[i].name]
           want == EligibleNamesInListingOrder
       IN /\ Len(sent) <= Len(want)
          /\ sent = SubSeq(want, 1, Len(sent))
          /\ Len(DeleteCalls) + Len(inFlight) = Len(sent)
          /\ Exited => sent = want

\* a finished run of at least three deletions, one of them refused and
\* followed by a successful one, with ineligible branches in the listing
C11_Witness ==
  /\ Exited /\ Started /\ ~finalInput.dryRun
  /\ Len(DeleteCalls) >= 3
  /\ Len(DeleteCalls) < Len(branches)
  /\ ~DeleteCalls[2].ok
  /\ DeleteCalls[3].ok
  /\ NamesOf(DeleteCalls) = EligibleNamesInListingOrder

====
